---- MODULE Spec2Model ----
(***************************************************************************)
(* Model of tools/witx/src/polyfill.rs: the polyfill analysis that matches *)
(* the functions, parameters and results of an old interface module        *)
(* against a new one and renders the compatibility report.                 *)
(*                                                                         *)
(* Texts are TLA+ strings built with \o exactly as the format! calls build *)
(* them, so a report is compared character by character.                   *)
(***************************************************************************)
EXTENDS Integers, Sequences, FiniteSets, TLC

VARIABLES
    level,           \* the entry point the caller uses: "func", "value", "module", "doc"
    new_func,        \* FuncPolyfill::new argument `new`
    old_func,        \* FuncPolyfill::new argument `old`
    fp,              \* a FuncPolyfill value (NoValue before it is built)
    fp_report,       \* Some(fp.report()) once called
    fp_compat,       \* Some(fp.full_compat()) once called
    new_module,      \* ModulePolyfill::new argument `new`
    old_module,      \* ModulePolyfill::new argument `old`
    mp_result,       \* Result<ModulePolyfill, PolyfillError>
    new_doc,         \* Polyfill::new argument `new`
    old_doc,         \* Polyfill::new argument `old`
    module_mapping,  \* Polyfill::new argument `module_mapping`
    iter_order,      \* the order in which the HashMap yielded its entries
    pf_result,       \* Result<Polyfill, PolyfillError>
    pf_report        \* Some(report()) of the Polyfill in pf_result once called

vars == << level, new_func, old_func, fp, fp_report, fp_compat,
           new_module, old_module, mp_result,
           new_doc, old_doc, module_mapping, iter_order, pf_result, pf_report >>

func_vars == << new_func, old_func, fp, fp_report, fp_compat >>
module_vars == << new_module, old_module, mp_result >>
doc_vars == << new_doc, old_doc, module_mapping, iter_order, pf_result, pf_report >>

\* a record-valued variable that holds nothing yet
NoValue == [none |-> TRUE]
\* a text or flag that has, or has not yet, been computed
None == [some |-> FALSE]
Some(v) == [some |-> TRUE, value |-> v]
\* a document or mapping variable of a run that has no documents
NoDoc == << >>

(***************************************************************************)
(* Bounds of the model.                                                    *)
(***************************************************************************)
\* parameters plus results of one function in the function-level runs
MaxArity == 2
\* functions of one module in the module-level runs
MaxFuncs == 2
\* functions of one module in the document-level runs
MaxDocFuncs == 1
\* entries of the four lists of a hand-built FuncPolyfill value, together
MaxEntries == 2

(***************************************************************************)
(* Collaborators of the crate that polyfill.rs consumes.                   *)
(***************************************************************************)
TypeNames == {"int32", "int64"}

\* Representable::representable: the three-way verdict of source -> target.
\* int32 values fit int64 (Superset); int64 values do not fit int32 (NotEq).
representable(source, target) ==
    IF source = target THEN "Eq"
    ELSE IF source = "int32" /\ target = "int64" THEN "Superset"
    ELSE "NotEq"

\* TypeRef::type_name: the printable name of a type.
type_name(tref) == tref

\* Id::new: the identifier of a string; identifiers are equal iff the strings are.
IdNew(s) == s

\* iter().find(|p| p.name == name): index of the first element of that name, 0 if none.
FindByName(items, name) ==
    IF \E i \in 1..Len(items) : items[i].name = name
    THEN CHOOSE i \in 1..Len(items) :
            /\ items[i].name = name
            /\ \A j \in 1..(i - 1) : items[j].name # name
    ELSE 0

\* Module::func(&name): the function of that name, if the module declares one.
ModuleFunc(module, name) == FindByName(module.funcs, name)

\* Document::module(&name): whether the document declares a module of that name.
DocHasModule(doc, name) == name \in DOMAIN doc

\* Document::module(&name): the module of that name.
DocModule(doc, name) == [name |-> name, funcs |-> doc[name]]

(***************************************************************************)
(* ParamPolyfill and ParamUnknown.                                         *)
(***************************************************************************)
ParamUnknownOld(p) == [tag |-> "Old", param |-> p]
ParamUnknownNew(p) == [tag |-> "New", param |-> p]

ParamUnknown_which(u) == IF u.tag = "Old" THEN "old" ELSE "new"

ParamUnknown_param(u) == u.param

ParamPolyfill_full_compat(p) == p.new.name = p.old.name /\ p.repeq = "Eq"

\* the classification text with the new type named before the old one
ParamPolyfill_report_newfirst(p) ==
    LET name == IF p.new.name # p.old.name
                THEN p.old.name \o " => " \o p.new.name
                ELSE p.new.name
        repr == CASE p.repeq = "Eq" -> "compatible types"
                  [] p.repeq = "Superset" ->
                        type_name(p.new.tref) \o " is superset-compatible with "
                            \o type_name(p.old.tref)
                  [] p.repeq = "NotEq" ->
                        type_name(p.new.tref) \o " is incompatible with new "
                            \o type_name(p.old.tref)
    IN name \o ": " \o repr

ParamPolyfill_report(p) ==
    LET name == IF p.new.name # p.old.name
                THEN p.old.name \o " => " \o p.new.name
                ELSE p.new.name
        repr == CASE p.repeq = "Eq" -> "compatible types"
                  [] p.repeq = "Superset" ->
                        type_name(p.old.tref) \o " is superset-compatible with "
                            \o type_name(p.new.tref)
                  [] p.repeq = "NotEq" ->
                        type_name(p.old.tref) \o " is incompatible with new "
                            \o type_name(p.new.tref)
    IN name \o ": " \o repr

(***************************************************************************)
(* FuncPolyfill::new.                                                      *)
(***************************************************************************)
\* the parameter verdict taken the wrong way round
ParamRepeq_reversed(new_param, old_param) == representable(new_param.tref, old_param.tref)

\* verdict of the parameter pass: the old parameter's type as the new one's
ParamRepeq(new_param, old_param) == representable(old_param.tref, new_param.tref)

\* verdict of the result pass: the new result's type as the old one's
ResultRepeq(new_result, old_result) == representable(new_result.tref, old_result.tref)

\* the coverage test of a new parameter with is_some() for is_none()
NewParamUncovered_inverted(mapped_params, new_param) ==
    \E k \in 1..Len(mapped_params) : mapped_params[k].new.name = new_param.name

\* mapped_params.iter().find(|m| m.new.name == new_param.name).is_none()
NewParamUncovered(mapped_params, new_param) ==
    ~ \E k \in 1..Len(mapped_params) : mapped_params[k].new.name = new_param.name

\* the coverage test of an old result with is_some() for is_none()
OldResultUncovered_inverted(mapped_results, old_result) ==
    \E k \in 1..Len(mapped_results) : mapped_results[k].old.name = old_result.name

\* mapped_results.iter().find(|m| m.old.name == old_result.name).is_none()
OldResultUncovered(mapped_results, old_result) ==
    ~ \E k \in 1..Len(mapped_results) : mapped_results[k].old.name = old_result.name

\* an unmatched new parameter put in front of the list instead of at its end
PushUnknownNewParam_front(unknown_params, new_param) ==
    <<ParamUnknownNew(new_param)>> \o unknown_params

\* unknown_params.push(ParamUnknown::New(new_param.clone()))
PushUnknownNewParam(unknown_params, new_param) ==
    Append(unknown_params, ParamUnknownNew(new_param))

\* unknown_results.push(ParamUnknown::Old(old_result.clone()))
PushUnknownOldResult(unknown_results, old_result) ==
    Append(unknown_results, ParamUnknownOld(old_result))

\* first loop of the parameter pass, from old parameter i on
RECURSIVE MapOldParams(_, _, _, _)
MapOldParams(new, old, i, acc) ==
    IF i > Len(old.params) THEN acc
    ELSE LET old_param == old.params[i]
             j == FindByName(new.params, old_param.name)
         IN IF j # 0
            THEN MapOldParams(new, old, i + 1,
                    [acc EXCEPT !.mapped = Append(@,
                        [new |-> new.params[j], old |-> old_param,
                         repeq |-> ParamRepeq(new.params[j], old_param)])])
            ELSE MapOldParams(new, old, i + 1,
                    [acc EXCEPT !.unknown = Append(@, ParamUnknownOld(old_param))])

\* second loop of the parameter pass, from new parameter i on
RECURSIVE UncoveredNewParams(_, _, _)
UncoveredNewParams(new, i, acc) ==
    IF i > Len(new.params) THEN acc
    ELSE IF NewParamUncovered(acc.mapped, new.params[i])
         THEN UncoveredNewParams(new, i + 1,
                [acc EXCEPT !.unknown = PushUnknownNewParam(@, new.params[i])])
         ELSE UncoveredNewParams(new, i + 1, acc)

\* first loop of the result pass, from new result i on
RECURSIVE MapNewResults(_, _, _, _)
MapNewResults(new, old, i, acc) ==
    IF i > Len(new.results) THEN acc
    ELSE LET new_result == new.results[i]
             j == FindByName(old.results, new_result.name)
         IN IF j # 0
            THEN MapNewResults(new, old, i + 1,
                    [acc EXCEPT !.mapped = Append(@,
                        [new |-> new_result, old |-> old.results[j],
                         repeq |-> ResultRepeq(new_result, old.results[j])])])
            ELSE MapNewResults(new, old, i + 1,
                    [acc EXCEPT !.unknown = Append(@, ParamUnknownNew(new_result))])

\* second loop of the result pass, from old result i on
RECURSIVE UncoveredOldResults(_, _, _)
UncoveredOldResults(old, i, acc) ==
    IF i > Len(old.results) THEN acc
    ELSE IF OldResultUncovered(acc.mapped, old.results[i])
         THEN UncoveredOldResults(old, i + 1,
                [acc EXCEPT !.unknown = PushUnknownOldResult(@, old.results[i])])
         ELSE UncoveredOldResults(old, i + 1, acc)

EmptyLists == [mapped |-> << >>, unknown |-> << >>]

FuncPolyfill_new(new, old) ==
    LET params == UncoveredNewParams(new, 1, MapOldParams(new, old, 1, EmptyLists))
        results == UncoveredOldResults(old, 1, MapNewResults(new, old, 1, EmptyLists))
    IN [new |-> new, old |-> old,
        mapped_params |-> params.mapped,
        unknown_params |-> params.unknown,
        mapped_results |-> results.mapped,
        unknown_results |-> results.unknown]

(***************************************************************************)
(* FuncPolyfill::full_compat and FuncPolyfill::report.                     *)
(***************************************************************************)
\* Vec<String>::join(sep)
RECURSIVE JoinStrings(_, _)
JoinStrings(strs, sep) ==
    IF Len(strs) = 0 THEN ""
    ELSE IF Len(strs) = 1 THEN strs[1]
    ELSE strs[1] \o sep \o JoinStrings(Tail(strs), sep)

FuncPolyfill_full_compat(f) ==
    /\ f.new.name = f.old.name
    /\ \A i \in 1..Len(f.mapped_params) : ParamPolyfill_full_compat(f.mapped_params[i])
    /\ Len(f.unknown_params) = 0
    /\ \A i \in 1..Len(f.mapped_results) : ParamPolyfill_full_compat(f.mapped_results[i])
    /\ Len(f.unknown_results) = 0

\* the line of a mapped pair without the short form of a fully compatible one
MappedLine_always_report(kind, p) == kind \o " " \o ParamPolyfill_report(p)

\* the line of one mapped parameter ("param") or result ("result")
MappedLine(kind, p) ==
    IF ~ ParamPolyfill_full_compat(p)
    THEN kind \o " " \o ParamPolyfill_report(p)
    ELSE kind \o " " \o p.new.name \o ": compatible"

\* the line of one unmatched parameter ("param") or result ("result")
UnknownLine(kind, u) ==
    ParamUnknown_which(u) \o " " \o kind \o " " \o ParamUnknown_param(u).name
        \o ": no corresponding result!"

\* the `contents` vector of report(): the four loops in their order
FuncPolyfill_contents(f) ==
    [i \in 1..Len(f.mapped_params) |-> MappedLine("param", f.mapped_params[i])]
    \o [i \in 1..Len(f.unknown_params) |-> UnknownLine("param", f.unknown_params[i])]
    \o [i \in 1..Len(f.mapped_results) |-> MappedLine("result", f.mapped_results[i])]
    \o [i \in 1..Len(f.unknown_results) |-> UnknownLine("result", f.unknown_results[i])]

\* the header of a report that is not "full compatibility"
FuncPolyfill_header(f) ==
    IF f.new.name # f.old.name
    THEN f.old.name \o " => " \o f.new.name
    ELSE f.new.name

\* report() deciding "full compatibility" by the emptiness of contents
FuncPolyfill_report_by_contents(f) ==
    LET contents == FuncPolyfill_contents(f)
    IN IF Len(contents) = 0
       THEN f.new.name \o ": full compatibility"
       ELSE FuncPolyfill_header(f) \o ":\n\t\t" \o JoinStrings(contents, "\n\t\t")

FuncPolyfill_report(f) ==
    IF FuncPolyfill_full_compat(f)
    THEN f.new.name \o ": full compatibility"
    ELSE LET contents == FuncPolyfill_contents(f)
             tail == IF Len(contents) = 0 THEN ""
                     ELSE ":\n\t\t" \o JoinStrings(contents, "\n\t\t")
         IN FuncPolyfill_header(f) \o tail

(***************************************************************************)
(* ModulePolyfill.                                                         *)
(***************************************************************************)
Ok(v) == [ok |-> TRUE, value |-> v]
FuncNotPresent(name) == [ok |-> FALSE, kind |-> "FuncNotPresent", name |-> name]
ModuleNotPresent(name) == [ok |-> FALSE, kind |-> "ModuleNotPresent", name |-> name]

\* a FuncPolyfill put in front of the list instead of at its end
PushFunc_front(funcs, newfunc, oldfunc) ==
    <<FuncPolyfill_new(newfunc, oldfunc)>> \o funcs

\* funcs.push(FuncPolyfill::new(newfunc, oldfunc))
PushFunc(funcs, newfunc, oldfunc) == Append(funcs, FuncPolyfill_new(newfunc, oldfunc))

\* the loop over old.funcs(), from old function i on, with the funcs pushed so far
RECURSIVE ModulePolyfill_loop(_, _, _, _)
ModulePolyfill_loop(new, old, i, funcs) ==
    IF i > Len(old.funcs) THEN Ok([new |-> new, old |-> old, funcs |-> funcs])
    ELSE LET oldfunc == old.funcs[i]
             j == ModuleFunc(new, oldfunc.name)
         IN IF j = 0 THEN FuncNotPresent(oldfunc.name)
            ELSE ModulePolyfill_loop(new, old, i + 1,
                    PushFunc(funcs, new.funcs[j], oldfunc))

ModulePolyfill_new(new, old) == ModulePolyfill_loop(new, old, 1, << >>)

ModulePolyfill_report(m) ==
    "Implement module " \o m.new.name \o " in terms of " \o m.old.name \o ":\n\t"
        \o JoinStrings([i \in 1..Len(m.funcs) |-> FuncPolyfill_report(m.funcs[i])], "\n\t")

(***************************************************************************)
(* Polyfill.                                                               *)
(***************************************************************************)
\* the new-side lookup of one mapping entry
NewModuleMissing(new, newname) == ~ DocHasModule(new, newname)

\* the old-side lookup of one mapping entry
OldModuleMissing(old, oldname) == ~ DocHasModule(old, oldname)

\* the loop over module_mapping, from entry i of the iteration order on
RECURSIVE Polyfill_loop(_, _, _, _, _, _)
Polyfill_loop(new, old, mapping, order, i, modules) ==
    IF i > Len(order) THEN Ok([modules |-> modules])
    ELSE LET newname == IdNew(order[i])
             oldname == IdNew(mapping[order[i]])
         IN IF NewModuleMissing(new, newname) THEN ModuleNotPresent(newname)
            ELSE IF OldModuleMissing(old, oldname) THEN ModuleNotPresent(oldname)
            ELSE LET m == ModulePolyfill_new(DocModule(new, newname),
                                             DocModule(old, oldname))
                 IN IF ~ m.ok THEN m
                    ELSE Polyfill_loop(new, old, mapping, order, i + 1,
                                       Append(modules, m.value))

\* the loop with a missing module skipped (continue) instead of failing
RECURSIVE Polyfill_loop_skipping(_, _, _, _, _, _)
Polyfill_loop_skipping(new, old, mapping, order, i, modules) ==
    IF i > Len(order) THEN Ok([modules |-> modules])
    ELSE LET newname == IdNew(order[i])
             oldname == IdNew(mapping[order[i]])
         IN IF NewModuleMissing(new, newname) \/ OldModuleMissing(old, oldname)
            THEN Polyfill_loop_skipping(new, old, mapping, order, i + 1, modules)
            ELSE LET m == ModulePolyfill_new(DocModule(new, newname),
                                             DocModule(old, oldname))
                 IN IF ~ m.ok THEN m
                    ELSE Polyfill_loop_skipping(new, old, mapping, order, i + 1,
                                                Append(modules, m.value))

Polyfill_new_skipping(new, old, mapping, order) ==
    Polyfill_loop_skipping(new, old, mapping, order, 1, << >>)

\* the loop returning Ok(Polyfill { modules }) from inside its first iteration
Polyfill_new_first_only(new, old, mapping, order) ==
    Polyfill_loop(new, old, mapping,
                  IF Len(order) = 0 THEN order ELSE <<order[1]>>, 1, << >>)

\* Polyfill::new when the HashMap yields its keys in `order`
Polyfill_new(new, old, mapping, order) ==
    Polyfill_loop(new, old, mapping, order, 1, << >>)

Polyfill_report(p) ==
    JoinStrings([i \in 1..Len(p.modules) |-> ModulePolyfill_report(p.modules[i])], "\n")

(***************************************************************************)
(* Inputs: the interface values the analysis is run on.  witx validation   *)
(* gives the parameters of a function distinct names, likewise its results,*)
(* the functions of a module and the modules of a document.                *)
(***************************************************************************)
\* sequences of length n over S whose elements have pairwise distinct names
UniqueNamed(S, n) ==
    {q \in [1..n -> S] : \A i, j \in 1..n : i # j => q[i].name # q[j].name}

\* the permutations of a finite set: the orders a HashMap may yield its keys in
Orders(S) ==
    {o \in [1..Cardinality(S) -> S] : \A i, j \in 1..Cardinality(S) : i # j => o[i] # o[j]}

FuncNames == {"foo", "bar"}
ParamNames == {"a", "x", "y"}
ResultNames == {"b", "r"}
Verdicts == {"Eq", "Superset", "NotEq"}

InterfaceFuncParams(names) == [name : names, tref : TypeNames]

\* functions with at most max_arity parameters and results in total
InterfaceFuncs(max_arity) ==
    UNION { [name : FuncNames,
             params : UniqueNamed(InterfaceFuncParams(ParamNames), np),
             results : UniqueNamed(InterfaceFuncParams(ResultNames), nr)]
            : <<np, nr>> \in {l \in (0..max_arity) \X (0..max_arity) :
                                 l[1] + l[2] <= max_arity} }

\* hand-built FuncPolyfill values (all fields are public) with at most
\* max_entries entries in the four lists together
ValueParams == {[name |-> "a", tref |-> "int32"], [name |-> "b", tref |-> "int64"]}
ValueParamPolyfills == [new : ValueParams, old : ValueParams, repeq : Verdicts]
ValueParamUnknowns == [tag : {"Old", "New"}, param : ValueParams]
ValueFunc(name) == [name |-> name, params |-> << >>, results |-> << >>]
\* the lengths of the four lists
ValueListLengths(max_entries) ==
    {k \in [1..4 -> 0..max_entries] : k[1] + k[2] + k[3] + k[4] <= max_entries}

\* the functions the modules of the module-level runs declare
ModuleFuncNames == {"f", "g", "h"}
ModuleInterfaceFuncs ==
    [name : ModuleFuncNames,
     params : {<< >>, <<[name |-> "a", tref |-> "int32"]>>},
     results : {<< >>}]
Modules(name, max_funcs) ==
    UNION { [name : {name}, funcs : UniqueNamed(ModuleInterfaceFuncs, n)] : n \in 0..max_funcs }

\* the functions the modules of the document-level runs declare
DocInterfaceFuncs ==
    { [name |-> "f", params |-> <<[name |-> "a", tref |-> "int32"]>>,
       results |-> <<[name |-> "r", tref |-> "int64"]>>],
      [name |-> "f", params |-> <<[name |-> "a", tref |-> "int64"]>>,
       results |-> <<[name |-> "r", tref |-> "int32"]>>],
      [name |-> "f", params |-> <<[name |-> "a", tref |-> "int32"]>>,
       results |-> <<[name |-> "r", tref |-> "int32"]>>],
      [name |-> "g", params |-> <<[name |-> "x", tref |-> "int32"]>>,
       results |-> << >>] }
DocFuncLists(max_funcs) == UNION { UniqueNamed(DocInterfaceFuncs, n) : n \in 0..max_funcs }

\* a document: its module names, each with the functions the module declares
ModuleNames == {"m1", "m2"}
Documents(max_funcs) == UNION { [D -> DocFuncLists(max_funcs)] : D \in SUBSET ModuleNames }

\* a module mapping: new module name -> old module name
Mappings == UNION { [D -> ModuleNames] : D \in SUBSET ModuleNames }

(***************************************************************************)
(* The calls.                                                              *)
(***************************************************************************)
InitFunc ==
    /\ level = "func"
    /\ new_func \in InterfaceFuncs(MaxArity)
    /\ old_func \in InterfaceFuncs(MaxArity)
    /\ fp = NoValue /\ fp_report = None /\ fp_compat = None
    /\ new_module = NoValue /\ old_module = NoValue /\ mp_result = NoValue
    /\ new_doc = NoDoc /\ old_doc = NoDoc /\ module_mapping = NoDoc
    /\ iter_order = << >> /\ pf_result = NoValue /\ pf_report = None

InitValue ==
    /\ level = "value"
    /\ \E l \in ValueListLengths(MaxEntries), nn \in FuncNames, on \in FuncNames :
          \E mp \in [1..l[1] -> ValueParamPolyfills],
             up \in [1..l[2] -> ValueParamUnknowns],
             mr \in [1..l[3] -> ValueParamPolyfills],
             ur \in [1..l[4] -> ValueParamUnknowns] :
                fp = [new |-> ValueFunc(nn), old |-> ValueFunc(on),
                      mapped_params |-> mp, unknown_params |-> up,
                      mapped_results |-> mr, unknown_results |-> ur]
    /\ new_func = fp.new
    /\ old_func = fp.old
    /\ fp_report = None /\ fp_compat = None
    /\ new_module = NoValue /\ old_module = NoValue /\ mp_result = NoValue
    /\ new_doc = NoDoc /\ old_doc = NoDoc /\ module_mapping = NoDoc
    /\ iter_order = << >> /\ pf_result = NoValue /\ pf_report = None

InitModule ==
    /\ level = "module"
    /\ new_module \in Modules("wasi_new", MaxFuncs)
    /\ old_module \in Modules("wasi_old", MaxFuncs)
    /\ mp_result = NoValue
    /\ new_func = NoValue /\ old_func = NoValue
    /\ fp = NoValue /\ fp_report = None /\ fp_compat = None
    /\ new_doc = NoDoc /\ old_doc = NoDoc /\ module_mapping = NoDoc
    /\ iter_order = << >> /\ pf_result = NoValue /\ pf_report = None

InitDoc ==
    /\ level = "doc"
    /\ new_doc \in Documents(MaxDocFuncs)
    /\ old_doc \in Documents(MaxDocFuncs)
    /\ module_mapping \in Mappings
    /\ iter_order = << >> /\ pf_result = NoValue /\ pf_report = None
    /\ new_func = NoValue /\ old_func = NoValue
    /\ fp = NoValue /\ fp_report = None /\ fp_compat = None
    /\ new_module = NoValue /\ old_module = NoValue /\ mp_result = NoValue

Init == InitDoc \/ InitModule \/ InitFunc \/ InitValue

\* FuncPolyfill::new(new_func, old_func)
CallFuncPolyfillNew ==
    /\ level = "func"
    /\ fp = NoValue
    /\ fp' = FuncPolyfill_new(new_func, old_func)
    /\ UNCHANGED << level, new_func, old_func, fp_report, fp_compat, module_vars, doc_vars >>

\* fp.report()
CallFuncReport ==
    /\ fp # NoValue
    /\ fp_report = None
    /\ fp_report' = Some(FuncPolyfill_report(fp))
    /\ UNCHANGED << level, new_func, old_func, fp, fp_compat, module_vars, doc_vars >>

\* fp.full_compat()
CallFuncFullCompat ==
    /\ fp # NoValue
    /\ fp_compat = None
    /\ fp_compat' = Some(FuncPolyfill_full_compat(fp))
    /\ UNCHANGED << level, new_func, old_func, fp, fp_report, module_vars, doc_vars >>

\* ModulePolyfill::new(new_module, old_module)
CallModulePolyfillNew ==
    /\ level = "module"
    /\ mp_result = NoValue
    /\ mp_result' = ModulePolyfill_new(new_module, old_module)
    /\ UNCHANGED << level, new_module, old_module, func_vars, doc_vars >>

\* Polyfill::new(new_doc, old_doc, module_mapping); the HashMap picks the order
CallPolyfillNew ==
    /\ level = "doc"
    /\ pf_result = NoValue
    /\ \E order \in Orders(DOMAIN module_mapping) :
          /\ iter_order' = order
          /\ pf_result' = Polyfill_new(new_doc, old_doc, module_mapping, order)
    /\ UNCHANGED << level, new_doc, old_doc, module_mapping, pf_report, func_vars, module_vars >>

\* report() of the Polyfill that Polyfill::new returned
CallPolyfillReport ==
    /\ pf_result # NoValue
    /\ pf_result.ok
    /\ pf_report = None
    /\ pf_report' = Some(Polyfill_report(pf_result.value))
    /\ UNCHANGED << level, new_doc, old_doc, module_mapping, iter_order, pf_result,
                    func_vars, module_vars >>

NextFunc == CallFuncPolyfillNew \/ CallFuncReport
NextValue == CallFuncReport \/ CallFuncFullCompat
NextModule == CallModulePolyfillNew
NextDoc == CallPolyfillNew \/ CallPolyfillReport

Next ==
    \/ CallFuncPolyfillNew
    \/ CallFuncReport
    \/ CallFuncFullCompat
    \/ CallModulePolyfillNew
    \/ CallPolyfillNew
    \/ CallPolyfillReport

Spec == Init /\ [][Next]_vars
SpecFunc == InitFunc /\ [][NextFunc]_vars
SpecValue == InitValue /\ [][NextValue]_vars
SpecModule == InitModule /\ [][NextModule]_vars
SpecDoc == InitDoc /\ [][NextDoc]_vars

(***************************************************************************)
(* Helpers of the properties.                                              *)
(***************************************************************************)
\* the number of positions of q whose element satisfies Test
CountOf(q, Test(_)) == Cardinality({i \in 1..Len(q) : Test(q[i])})

IsOld(u) == u.tag = "Old"
IsNew(u) == u.tag = "New"
HasName(items, name) == \E i \in 1..Len(items) : items[i].name = name

\* whether text holds sub as a substring
Contains(text, sub) ==
    \E i \in 1..(Len(text) - Len(sub) + 1) : SubSeq(text, i, i + Len(sub) - 1) = sub

\* the pieces of text between the occurrences of sep
RECURSIVE SplitText(_, _)
SplitText(text, sep) ==
    IF ~ Contains(text, sep) THEN <<text>>
    ELSE LET i == CHOOSE k \in 1..(Len(text) - Len(sep) + 1) :
                    /\ SubSeq(text, k, k + Len(sep) - 1) = sep
                    /\ \A h \in 1..(k - 1) : SubSeq(text, h, h + Len(sep) - 1) # sep
         IN <<SubSeq(text, 1, i - 1)>>
                \o SplitText(SubSeq(text, i + Len(sep), Len(text)), sep)

\* the lines of a FuncPolyfill report: the header, then one line per entry
ReportLines(text) == SplitText(text, "\n\t\t")

\* the parameters of the entries of an unknown list that carry the tag, in order
RECURSIVE ParamsTagged(_, _)
ParamsTagged(unknown, tag) ==
    IF Len(unknown) = 0 THEN << >>
    ELSE IF unknown[1].tag = tag
         THEN <<unknown[1].param>> \o ParamsTagged(Tail(unknown), tag)
         ELSE ParamsTagged(Tail(unknown), tag)

\* the elements of items that have no same-named element in others, in order
RECURSIVE Unmatched(_, _)
Unmatched(items, others) ==
    IF Len(items) = 0 THEN << >>
    ELSE IF HasName(others, items[1].name)
         THEN Unmatched(Tail(items), others)
         ELSE <<items[1]>> \o Unmatched(Tail(items), others)

\* not fully compatible, said without full_compat(): a rename, a verdict other
\* than Eq, or an unmatched parameter or result
NotFullyCompatible(f) ==
    \/ f.new.name # f.old.name
    \/ \E i \in 1..Len(f.mapped_params) :
          f.mapped_params[i].repeq # "Eq"
            \/ f.mapped_params[i].new.name # f.mapped_params[i].old.name
    \/ \E i \in 1..Len(f.mapped_results) :
          f.mapped_results[i].repeq # "Eq"
            \/ f.mapped_results[i].new.name # f.mapped_results[i].old.name
    \/ Len(f.unknown_params) > 0
    \/ Len(f.unknown_results) > 0

\* the old functions, by position, that the new module does not declare
MissingFuncs == {i \in 1..Len(old_module.funcs) :
                    ~ HasName(new_module.funcs, old_module.funcs[i].name)}

(***************************************************************************)
(* C1: ModulePolyfill::new returns Ok exactly when every old function has  *)
(* a same-named new function; its funcs then hold one FuncPolyfill per old *)
(* function, in the old module's declaration order, each with old.name the *)
(* name of that function.  Otherwise it returns FuncNotPresent naming the   *)
(* first old function, in declaration order, that the new module lacks.    *)
(***************************************************************************)
C1_ModulePolyfillNew ==
    mp_result # NoValue =>
        IF MissingFuncs = {}
        THEN /\ mp_result.ok
             /\ Len(mp_result.value.funcs) = Len(old_module.funcs)
             /\ \A i \in 1..Len(old_module.funcs) :
                    /\ mp_result.value.funcs[i].old = old_module.funcs[i]
                    /\ mp_result.value.funcs[i].old.name = old_module.funcs[i].name
        ELSE /\ ~ mp_result.ok
             /\ mp_result.kind = "FuncNotPresent"
             /\ \E i \in MissingFuncs :
                    /\ \A j \in MissingFuncs : i <= j
                    /\ mp_result.name = old_module.funcs[i].name

\* an Ok result for two old functions that the new module declares the other way round
C1_Witness ==
    /\ mp_result # NoValue
    /\ mp_result.ok
    /\ Len(old_module.funcs) = 2
    /\ new_module.funcs[1].name = old_module.funcs[2].name
    /\ Len(mp_result.value.funcs) = 2

C5_VerdictDirection ==
    fp # NoValue /\ level = "func" =>
        /\ \A i \in 1..Len(fp.mapped_params) :
              LET m == fp.mapped_params[i]
              IN /\ m.new.name = m.old.name
                 /\ m.repeq = representable(m.old.tref, m.new.tref)
                 /\ (m.old.tref = "int32" /\ m.new.tref = "int64" => m.repeq = "Superset")
                 /\ (m.old.tref = "int64" /\ m.new.tref = "int32" => m.repeq = "NotEq")
        /\ \A i \in 1..Len(fp.mapped_results) :
              LET m == fp.mapped_results[i]
              IN /\ m.new.name = m.old.name
                 /\ m.repeq = representable(m.new.tref, m.old.tref)
                 /\ (m.new.tref = "int32" /\ m.old.tref = "int64" => m.repeq = "Superset")
                 /\ (m.new.tref = "int64" /\ m.old.tref = "int32" => m.repeq = "NotEq")
        /\ \A i \in 1..Len(fp.mapped_params), j \in 1..Len(fp.mapped_results) :
              LET mp == fp.mapped_params[i]
                  mr == fp.mapped_results[j]
              IN mp.old.tref = mr.old.tref /\ mp.new.tref = mr.new.tref
                    /\ mp.old.tref # mp.new.tref
                 => /\ mp.repeq # mr.repeq
                    /\ {mp.repeq, mr.repeq} = {"Superset", "NotEq"}

\* old int32 and new int64 for a parameter and for a result: Superset and NotEq
C5_Witness ==
    /\ fp # NoValue /\ level = "func"
    /\ \E i \in 1..Len(fp.mapped_params), j \in 1..Len(fp.mapped_results) :
          /\ fp.mapped_params[i].old.tref = "int32"
          /\ fp.mapped_params[i].new.tref = "int64"
          /\ fp.mapped_results[j].old.tref = "int32"
          /\ fp.mapped_results[j].new.tref = "int64"
          /\ fp.mapped_params[i].repeq = "Superset"
          /\ fp.mapped_results[j].repeq = "NotEq"

(***************************************************************************)
(* C6: for every FuncPolyfill value, full_compat() is true if and only if  *)
(* report() is exactly "<name>: full compatibility"; a value that is not   *)
(* fully compatible, one with four empty lists included, never renders as  *)
(* that text, under the new name or under the old one.                     *)
(***************************************************************************)
C6_FullCompatIffReport ==
    fp # NoValue /\ fp_report.some /\ fp_compat.some =>
        /\ fp_compat.value <=> fp_report.value = fp.new.name \o ": full compatibility"
        /\ fp_compat.value <=> ~ NotFullyCompatible(fp)
        /\ ~ fp_compat.value => fp_report.value # fp.old.name \o ": full compatibility"

\* a value that is not fully compatible although its four lists are empty
C6_Witness ==
    /\ fp # NoValue /\ fp_report.some /\ fp_compat.some
    /\ ~ fp_compat.value
    /\ Len(fp.mapped_params) = 0 /\ Len(fp.unknown_params) = 0
    /\ Len(fp.mapped_results) = 0 /\ Len(fp.unknown_results) = 0
    /\ fp_report.value = "foo => bar"

\* the report line of an unmatched parameter, as the text words it
UnknownParamText(u) ==
    (IF IsOld(u) THEN "old" ELSE "new") \o " param " \o u.param.name
        \o ": no corresponding result!"

(***************************************************************************)
(* C7: ordering of the unmatched parameters.  In unknown_params every Old  *)
(* entry precedes every New entry, the Old entries are the unmatched old   *)
(* parameters in old declaration order and the New entries the unmatched   *)
(* new parameters in new declaration order; report() has, for each entry,  *)
(* exactly one line "<old|new> param <name>: no corresponding result!", in *)
(* the order of the list, after the mapped parameter lines and before the  *)
(* result lines.                                                           *)
(***************************************************************************)
C7_UnknownParamOrder ==
    fp # NoValue /\ level = "func" =>
        /\ \A i, j \in 1..Len(fp.unknown_params) :
              i < j => ~ (IsNew(fp.unknown_params[i]) /\ IsOld(fp.unknown_params[j]))
        /\ ParamsTagged(fp.unknown_params, "Old") = Unmatched(old_func.params, new_func.params)
        /\ ParamsTagged(fp.unknown_params, "New") = Unmatched(new_func.params, old_func.params)
        /\ fp.unknown_params
              = [i \in 1..Len(Unmatched(old_func.params, new_func.params)) |->
                    ParamUnknownOld(Unmatched(old_func.params, new_func.params)[i])]
                \o [i \in 1..Len(Unmatched(new_func.params, old_func.params)) |->
                    ParamUnknownNew(Unmatched(new_func.params, old_func.params)[i])]
        /\ fp_report.some /\ Len(fp.unknown_params) > 0 =>
              LET lines == ReportLines(fp_report.value)
                  first == 1 + Len(fp.mapped_params)
              IN /\ Len(lines) = 1 + Len(fp.mapped_params) + Len(fp.unknown_params)
                                   + Len(fp.mapped_results) + Len(fp.unknown_results)
                 /\ \A k \in 1..Len(fp.unknown_params) :
                       /\ lines[first + k] = UnknownParamText(fp.unknown_params[k])
                       /\ \A h \in 1..Len(lines) :
                             lines[h] = UnknownParamText(fp.unknown_params[k])
                                => h = first + k

\* old parameter x and new parameter y unmatched next to a mapped parameter
C7_Witness ==
    /\ fp # NoValue /\ level = "func" /\ fp_report.some
    /\ Len(fp.mapped_params) = 1
    /\ Len(fp.unknown_params) = 2
    /\ fp.unknown_params[1].tag = "Old" /\ fp.unknown_params[1].param.name = "x"
    /\ fp.unknown_params[2].tag = "New" /\ fp.unknown_params[2].param.name = "y"
    /\ ReportLines(fp_report.value)[3] = "old param x: no corresponding result!"
    /\ ReportLines(fp_report.value)[4] = "new param y: no corresponding result!"

\* the classification of a mapped pair by its verdict alone, old type first
ClassText(p) ==
    p.new.name \o ": " \o
        (CASE p.repeq = "Eq" -> "compatible"
           [] p.repeq = "Superset" ->
                 type_name(p.old.tref) \o " is superset-compatible with "
                     \o type_name(p.new.tref)
           [] p.repeq = "NotEq" ->
                 type_name(p.old.tref) \o " is incompatible with new "
                     \o type_name(p.new.tref))

\* the example: old foo(a: int32) -> (b: int32), new foo(a: int64) -> (b: int32)
ExampleOld ==
    [name |-> "foo", params |-> <<[name |-> "a", tref |-> "int32"]>>,
     results |-> <<[name |-> "b", tref |-> "int32"]>>]
ExampleNew ==
    [name |-> "foo", params |-> <<[name |-> "a", tref |-> "int64"]>>,
     results |-> <<[name |-> "b", tref |-> "int32"]>>]

(***************************************************************************)
(* C8: the report of a FuncPolyfill that is not fully compatible and whose *)
(* new and old names are equal starts with the header "<name>:" and has    *)
(* one line per mapped pair, chosen by the verdict alone: Eq gives         *)
(* "<name>: compatible", Superset "<name>: <old type> is                   *)
(* superset-compatible with <new type>", NotEq "<name>: <old type> is      *)
(* incompatible with new <new type>", the old type first for parameters    *)
(* and results alike, after the word "param" or "result".                  *)
(***************************************************************************)
C8_ClassificationText ==
    fp # NoValue /\ level = "func" /\ fp_report.some
        /\ fp.new.name = fp.old.name /\ NotFullyCompatible(fp) =>
        LET lines == ReportLines(fp_report.value)
            results_at == 1 + Len(fp.mapped_params) + Len(fp.unknown_params)
        IN /\ SubSeq(fp_report.value, 1, Len(fp.new.name) + 1) = fp.new.name \o ":"
           /\ lines[1] = fp.new.name \o ":"
           /\ Len(lines) = 1 + Len(fp.mapped_params) + Len(fp.unknown_params)
                             + Len(fp.mapped_results) + Len(fp.unknown_results)
           /\ \A i \in 1..Len(fp.mapped_params) :
                 lines[1 + i] = "param " \o ClassText(fp.mapped_params[i])
           /\ \A i \in 1..Len(fp.mapped_results) :
                 lines[results_at + i] = "result " \o ClassText(fp.mapped_results[i])
           /\ (new_func = ExampleNew /\ old_func = ExampleOld =>
                 /\ Contains(lines[2], "a: int32 is superset-compatible with int64")
                 /\ Contains(lines[3], "b: compatible")
                 /\ fp_report.value = "foo:\n\t\tparam a: int32 is superset-compatible with int64\n\t\tresult b: compatible")

\* the example run and reported: Superset for a, Eq for b
C8_Witness ==
    /\ fp # NoValue /\ level = "func" /\ fp_report.some
    /\ new_func = ExampleNew /\ old_func = ExampleOld
    /\ NotFullyCompatible(fp)
    /\ fp.mapped_params[1].repeq = "Superset"
    /\ fp.mapped_results[1].repeq = "Eq"

\* some entry of the mapping names a module its document lacks
SomeModuleAbsent ==
    \E k \in DOMAIN module_mapping :
        k \notin DOMAIN new_doc \/ module_mapping[k] \notin DOMAIN old_doc

\* name is a module that an entry names and that entry's document lacks
ReallyAbsent(name) ==
    \E k \in DOMAIN module_mapping :
        \/ name = k /\ k \notin DOMAIN new_doc
        \/ name = module_mapping[k] /\ module_mapping[k] \notin DOMAIN old_doc

\* name is a function of the old module of some entry, both of whose modules
\* exist, that the entry's new module does not declare
ReallyMissingFunc(name) ==
    \E k \in DOMAIN module_mapping :
        /\ k \in DOMAIN new_doc
        /\ module_mapping[k] \in DOMAIN old_doc
        /\ HasName(old_doc[module_mapping[k]], name)
        /\ ~ HasName(new_doc[k], name)

\* an Ok result holds one ModulePolyfill per entry, in the order of iteration
OnePerEntry ==
    /\ Len(iter_order) = Cardinality(DOMAIN module_mapping)
    /\ \A k \in DOMAIN module_mapping :
          Cardinality({i \in 1..Len(iter_order) : iter_order[i] = k}) = 1
    /\ Len(pf_result.value.modules) = Cardinality(DOMAIN module_mapping)
    /\ \A i \in 1..Len(pf_result.value.modules) :
          /\ pf_result.value.modules[i].new = DocModule(new_doc, iter_order[i])
          /\ pf_result.value.modules[i].old
                = DocModule(old_doc, module_mapping[iter_order[i]])

(***************************************************************************)
(* C2: Polyfill::new.  If some mapping entry names a new-side module that  *)
(* new_doc lacks or an old-side module that old_doc lacks, the call        *)
(* returns Err(ModuleNotPresent{name}) with the name of a module really    *)
(* absent from its document, and no Polyfill; if it returns Ok, modules    *)
(* holds exactly one ModulePolyfill per mapping entry, of the modules the  *)
(* entry names.  This is the statement as worded; an entry iterated        *)
(* earlier may fail on a missing function first.                           *)
(***************************************************************************)
C2_AlwaysModuleNotPresent ==
    pf_result # NoValue =>
        /\ SomeModuleAbsent =>
              /\ ~ pf_result.ok
              /\ pf_result.kind = "ModuleNotPresent"
              /\ ReallyAbsent(pf_result.name)
        /\ pf_result.ok => OnePerEntry

\* C2 as amended: with a missing module the call returns Err and no Polyfill;
\* the error is ModuleNotPresent naming a module really absent from its
\* document, or FuncNotPresent naming a function that an entry's old module
\* declares and its new module lacks; Ok gives one ModulePolyfill per entry.
C2_MissingModuleFails ==
    pf_result # NoValue =>
        /\ SomeModuleAbsent =>
              /\ ~ pf_result.ok
              /\ "value" \notin DOMAIN pf_result
              /\ pf_result.kind \in {"ModuleNotPresent", "FuncNotPresent"}
              /\ pf_result.kind = "ModuleNotPresent" => ReallyAbsent(pf_result.name)
              /\ pf_result.kind = "FuncNotPresent" => ReallyMissingFunc(pf_result.name)
        /\ ~ pf_result.ok /\ pf_result.kind = "ModuleNotPresent" =>
              ReallyAbsent(pf_result.name)
        /\ pf_result.ok => OnePerEntry

\* a mapping with a missing module whose other entry fails first, on a function
C2_Witness ==
    /\ pf_result # NoValue
    /\ SomeModuleAbsent
    /\ ~ pf_result.ok
    /\ pf_result.kind = "FuncNotPresent"

(***************************************************************************)
(* C9: in every Polyfill that Polyfill::new returns, each FuncPolyfill has *)
(* new.name = old.name and each mapped pair has new.name = old.name; so    *)
(* ParamPolyfill::full_compat() is the same as repeq = Eq, and the report  *)
(* holds no rename header "<old> => <new>" and never the Eq wording        *)
(* "compatible types".                                                     *)
(***************************************************************************)
C9_NoRenames ==
    pf_result # NoValue /\ pf_result.ok =>
        /\ \A i \in 1..Len(pf_result.value.modules) :
              \A j \in 1..Len(pf_result.value.modules[i].funcs) :
                 LET f == pf_result.value.modules[i].funcs[j]
                 IN /\ f.new.name = f.old.name
                    /\ \A k \in 1..Len(f.mapped_params) :
                          /\ f.mapped_params[k].new.name = f.mapped_params[k].old.name
                          /\ ParamPolyfill_full_compat(f.mapped_params[k])
                                <=> f.mapped_params[k].repeq = "Eq"
                    /\ \A k \in 1..Len(f.mapped_results) :
                          /\ f.mapped_results[k].new.name = f.mapped_results[k].old.name
                          /\ ParamPolyfill_full_compat(f.mapped_results[k])
                                <=> f.mapped_results[k].repeq = "Eq"
        /\ pf_report.some =>
              /\ ~ Contains(pf_report.value, " => ")
              /\ ~ Contains(pf_report.value, "compatible types")

\* a report with an Eq pair inside a function that is not fully compatible
C9_Witness ==
    /\ pf_result # NoValue /\ pf_result.ok /\ pf_report.some
    /\ \E i \in 1..Len(pf_result.value.modules) :
          \E j \in 1..Len(pf_result.value.modules[i].funcs) :
             LET f == pf_result.value.modules[i].funcs[j]
             IN /\ NotFullyCompatible(f)
                /\ \E k \in 1..Len(f.mapped_params) : f.mapped_params[k].repeq = "Eq"
    /\ Contains(pf_report.value, "param a: compatible")

\* the position of key k in the order o
PositionIn(o, k) == CHOOSE i \in 1..Len(o) : o[i] = k

(***************************************************************************)
(* C10: independence from the iteration order of the mapping.  For fixed   *)
(* documents and mapping, Polyfill::new is Ok under one order iff it is Ok *)
(* under every order; two Ok results hold the same ModulePolyfill values,  *)
(* each list in its own iteration order; results differ otherwise only in  *)
(* the error a failure carries.                                            *)
(***************************************************************************)
C10_OrderIndependence ==
    pf_result # NoValue =>
        \A o \in Orders(DOMAIN module_mapping) :
            LET other == Polyfill_new(new_doc, old_doc, module_mapping, o)
            IN /\ other.ok = pf_result.ok
               /\ other.ok =>
                     /\ Len(other.value.modules) = Len(o)
                     /\ Len(pf_result.value.modules) = Len(o)
                     /\ \A i \in 1..Len(o) :
                           other.value.modules[i]
                              = pf_result.value.modules[PositionIn(iter_order, o[i])]
               /\ ~ other.ok =>
                     /\ other.kind \in {"ModuleNotPresent", "FuncNotPresent"}
                     /\ "value" \notin DOMAIN other

\* two entries, Ok, whose other order gives the same two values the other way round
C10_Witness ==
    /\ pf_result # NoValue
    /\ pf_result.ok
    /\ Len(pf_result.value.modules) = 2
    /\ pf_result.value.modules[1] # pf_result.value.modules[2]
    /\ \E o \in Orders(DOMAIN module_mapping) :
          LET other == Polyfill_new(new_doc, old_doc, module_mapping, o)
          IN /\ other.ok
             /\ other.value.modules[1] = pf_result.value.modules[2]
             /\ other.value.modules[2] = pf_result.value.modules[1]

====
